---- MODULE Spec2Model ----
(***************************************************************************)
(* gin-gorm-filter: FilterByQuery, the GORM scope that turns the query     *)
(* string of a gin request into WHERE / ORDER BY / LIMIT / OFFSET parts.   *)
(*                                                                         *)
(* Go strings are modelled as sequences of one-character strings, so that  *)
(* the regular expressions and strings.Contains of the source are computed *)
(* character by character.                                                 *)
(***************************************************************************)
EXTENDS Integers, Sequences, FiniteSets, TLC

VARIABLES
    model,   \* db.Statement.Model: its reflect kind and its struct type
    config,  \* the config bit mask handed to FilterByQuery
    query,   \* the request's raw query string: a sequence of key=value pairs
    db,      \* the *gorm.DB statement handed to the scope
    params,  \* the queryParams value after c.BindQuery
    err,     \* whether c.BindQuery returned an error
    out,     \* the *gorm.DB statement the scope returns
    pc       \* "call" before the scope has run, "done" after it returned

vars == <<model, config, query, db, params, err, out, pc>>

----------------------------------------------------------------------------
(* Bounds of the model.                                                    *)

\* The longest query string, in key=value pairs.
MaxParams == 2

----------------------------------------------------------------------------
(* Character data.                                                         *)

Digits == <<"0","1","2","3","4","5","6","7","8","9">>

LowerAlphabet ==
    <<"a","b","c","d","e","f","g","h","i","j","k","l","m",
      "n","o","p","q","r","s","t","u","v","w","x","y","z">>

UpperAlphabet ==
    <<"A","B","C","D","E","F","G","H","I","J","K","L","M",
      "N","O","P","Q","R","S","T","U","V","W","X","Y","Z">>

LowerLetters == {LowerAlphabet[i] : i \in 1..Len(LowerAlphabet)}

UpperLetters == {UpperAlphabet[i] : i \in 1..Len(UpperAlphabet)}

\* The regexp class \w  ==  [0-9A-Za-z_]
WordChars ==
    {Digits[i] : i \in 1..Len(Digits)} \cup LowerLetters \cup UpperLetters \cup {"_"}

tagSearchable == <<"s","e","a","r","c","h","a","b","l","e">>
tagFilterable == <<"f","i","l","t","e","r","a","b","l","e">>
tagParamPrefix == <<"p","a","r","a","m",":">>
tagColumnPrefix == <<"c","o","l","u","m","n",":">>
tagUniqueIndex == <<"u","n","i","q","u","e","I","n","d","e","x">>
semi == <<";">>

sId == <<"I","d">>
sUsername == <<"U","s","e","r","n","a","m","e">>
sFullName == <<"F","u","l","l","N","a","m","e">>
sEmail == <<"E","m","a","i","l">>
sPassword == <<"P","a","s","s","w","o","r","d">>
sModel == <<"M","o","d","e","l">>
sRole == <<"R","o","l","e">>
sLogin == <<"L","o","g","i","n">>
sWord == <<"W","o","r","d">>
sid == <<"i","d">>
slogin == <<"l","o","g","i","n">>
sname == <<"n","a","m","e">>
sword == <<"w","o","r","d">>
sNote == <<"N","o","t","e">>
sToken == <<"T","o","k","e","n">>
spassword == <<"p","a","s","s","w","o","r","d">>
suser_login == <<"u","s","e","r","_","l","o","g","i","n">>
sdesc == <<"d","e","s","c">>
sasc == <<"a","s","c">>
strue == <<"t","r","u","e">>
sfalse == <<"f","a","l","s","e">>

vSampleUser == <<"s","a","m","p","l","e","U","s","e","r">>
vJohnMail == <<"j","o","h","n","@","e","x","a","m","p","l","e",".","c","o","m">>
vSamplePassword == <<"s","a","m","p","l","e","P","a","s","s","w","o","r","d">>
v22 == <<"2","2">>
v99 == <<"9","9">>
vSamp == <<"s","a","m","p">>
vJohn == <<"J","o","h","n">>
v2 == <<"2">>
vx == <<"x">>
vMinus1 == <<"-","1">>
v0 == <<"0">>
v1 == <<"1">>
v100 == <<"1","0","0">>
v101 == <<"1","0","1">>

----------------------------------------------------------------------------
(* Library functions the source calls: strings, regexp, strconv.           *)

\* s[i..] starts with lit
HasPrefixAt(s, i, lit) ==
    /\ i + Len(lit) - 1 <= Len(s)
    /\ \A k \in 1..Len(lit) : s[i + k - 1] = lit[k]

\* strings.Contains(s, substr)
Contains(s, substr) ==
    \E i \in 1..(Len(s) + 1) : HasPrefixAt(s, i, substr)

\* The last index of the run of \w characters of s that starts at i
\* (i - 1 when s[i] is no \w character): the greedy match of \w{1,}.
WordRunEnd(s, i) ==
    LET stops == {j \in i..Len(s) : s[j] \notin WordChars}
    IN  IF stops = {} THEN Len(s)
        ELSE (CHOOSE j \in stops : \A k \in stops : j <= k) - 1

\* The end of the line of s that holds index i: `.` matches no newline.
LineEnd(s, i) ==
    LET stops == {j \in i..Len(s) : s[j] = "\n"}
    IN  IF stops = {} THEN Len(s)
        ELSE (CHOOSE j \in stops : \A k \in stops : j <= k) - 1

\* The start positions at which the pattern  lit(\w{1,}).*  matches s,
\* lit being literal characters.
MatchStarts(lit, s) ==
    {i \in 1..Len(s) :
        /\ HasPrefixAt(s, i, lit)
        /\ i + Len(lit) <= Len(s)
        /\ s[i + Len(lit)] \in WordChars}

\* regexp.MustCompile(`(?m)` + lit + `(\w{1,}).*`).FindStringSubmatch(s):
\* nil (the empty sequence) when nothing matches, else the leftmost match and
\* its one capture group.
FindStringSubmatch(lit, s) ==
    LET starts == MatchStarts(lit, s)
    IN  IF starts = {} THEN << >>
        ELSE LET i == CHOOSE j \in starts : \A k \in starts : j <= k
                 g == i + Len(lit)
             IN  << SubSeq(s, i, LineEnd(s, i)), SubSeq(s, g, WordRunEnd(s, g)) >>

\* The value of the decimal digit c.
DigitValue(c) == (CHOOSE i \in 1..Len(Digits) : Digits[i] = c) - 1

IsDigits(s) ==
    /\ Len(s) > 0
    /\ \A i \in 1..Len(s) : \E d \in 1..Len(Digits) : Digits[d] = s[i]

RECURSIVE DigitsValue(_)
DigitsValue(s) ==
    IF Len(s) = 0 THEN 0
    ELSE 10 * DigitsValue(SubSeq(s, 1, Len(s) - 1)) + DigitValue(s[Len(s)])

\* strconv.ParseInt(s, 10, 0): [err, n]
ParseInt(s) ==
    LET signed == Len(s) > 0 /\ s[1] \in {"-", "+"}
        body   == IF signed THEN Tail(s) ELSE s
    IN  IF ~IsDigits(body) THEN [err |-> TRUE, n |-> 0]
        ELSE [err |-> FALSE,
              n   |-> IF signed /\ s[1] = "-" THEN 0 - DigitsValue(body)
                      ELSE DigitsValue(body)]

\* strconv.ParseBool(s): [err, b]
ParseBool(s) ==
    IF s \in {<<"1">>, <<"t">>, <<"T">>, strue, <<"T","R","U","E">>, <<"T","r","u","e">>}
    THEN [err |-> FALSE, b |-> TRUE]
    ELSE IF s \in {<<"0">>, <<"f">>, <<"F">>, sfalse, <<"F","A","L","S","E">>, <<"F","a","l","s","e">>}
    THEN [err |-> FALSE, b |-> FALSE]
    ELSE [err |-> TRUE, b |-> FALSE]

----------------------------------------------------------------------------
(* Package constants.                                                      *)

SEARCH == 1
FILTER == 2
PAGINATE == 4
ORDER_BY == 8
ALL == 15

\* config&bit > 0, bit a power of two
HasBit(cfg, bit) == (cfg \div bit) % 2 = 1

----------------------------------------------------------------------------
(* gorm: clause expressions and the statement's builder methods.           *)

\* A nil clause.Expression.
Nil == [op |-> "nil", column |-> << >>, value |-> << >>, exprs |-> << >>]

\* clause.Eq{Column, Value}
Eq(column, value) == [op |-> "Eq", column |-> column, value |-> value, exprs |-> << >>]

\* clause.Like{Column, Value}
Like(column, value) == [op |-> "Like", column |-> column, value |-> value, exprs |-> << >>]

\* clause.And(exprs...)
And(exprs) == [op |-> "And", column |-> << >>, value |-> << >>, exprs |-> exprs]

\* clause.Or(exprs...)
Or(exprs) == [op |-> "Or", column |-> << >>, value |-> << >>, exprs |-> exprs]

Unset == [set |-> FALSE, n |-> 0]

\* A statement with no clause yet.
NewDB == [where |-> << >>, order |-> << >>, offset |-> Unset, limit |-> Unset]

\* db.Where(expr): the statement's conditions are joined by AND.
Where(d, expr) == [d EXCEPT !.where = Append(@, expr)]

\* db.Order(clause.OrderByColumn{Column, Desc})
Order(d, column, desc) ==
    [d EXCEPT !.order = Append(@, [column |-> column, desc |-> desc])]

\* db.Offset(n)
Offset(d, n) == [d EXCEPT !.offset = [set |-> TRUE, n |-> n]]

\* db.Limit(n)
Limit(d, n) == [d EXCEPT !.limit = [set |-> TRUE, n |-> n]]

----------------------------------------------------------------------------
(* The scope's stages.                                                     *)

\* orderBy with the direction turned round.
orderBy_Inverted(d, p) == Order(d, p.OrderBy, p.OrderDirection # sdesc)

orderBy(d, p) == Order(d, p.OrderBy, p.OrderDirection = sdesc)

\* paginate with no upper limit on the page size.
paginate_NoUpperClamp(d, p) ==
    IF p.All THEN d
    ELSE LET page == IF p.Page = 0 THEN 1 ELSE p.Page
             size == IF p.PageSize <= 0 THEN 10 ELSE p.PageSize
         IN  Limit(Offset(d, (page - 1) * size), size)

\* paginate that pages an all=true request as well.
paginate_IgnoresAll(d, p) ==
    LET page == IF p.Page = 0 THEN 1 ELSE p.Page
        size == IF p.PageSize > 100 THEN 100
                ELSE IF p.PageSize <= 0 THEN 10 ELSE p.PageSize
    IN  Limit(Offset(d, (page - 1) * size), size)

paginate(d, p) ==
    IF p.All THEN d
    ELSE LET page == IF p.Page = 0 THEN 1 ELSE p.Page
             size == IF p.PageSize > 100 THEN 100
                     ELSE IF p.PageSize <= 0 THEN 10
                     ELSE p.PageSize
         IN  Limit(Offset(d, (page - 1) * size), size)

\* A struct field: its name and the values of its gorm and filter tags
\* (field.Tag.Get gives "" for a tag the field does not carry).
Field(name, gormTag, filterTag) == [Name |-> name, gorm |-> gormTag, filter |-> filterTag]

getColumnNameForField(field) ==
    LET res == FindStringSubmatch(tagColumnPrefix, field.gorm)
    IN  IF Len(res) = 2 THEN res[2] ELSE field.Name

\* searchField with the pattern anchored at the end of the value.
searchField_NoTrailingWildcard(field, phrase) ==
    IF Contains(field.filter, tagSearchable)
    THEN Like(getColumnNameForField(field), <<"%">> \o phrase)
    ELSE Nil

searchField(field, phrase) ==
    IF Contains(field.filter, tagSearchable)
    THEN Like(getColumnNameForField(field), <<"%">> \o phrase \o <<"%">>)
    ELSE Nil

\* paramNameOf with the field's declared name as the default.
paramNameOf_DefaultsToFieldName(field) ==
    LET paramMatch == FindStringSubmatch(tagParamPrefix, field.filter)
    IN  IF Len(paramMatch) = 2 THEN paramMatch[2] ELSE field.Name

\* The parameter name filterField looks for in the phrase.
paramNameOf(field) ==
    LET paramMatch == FindStringSubmatch(tagParamPrefix, field.filter)
    IN  IF Len(paramMatch) = 2 THEN paramMatch[2] ELSE getColumnNameForField(field)

\* filterField with the parameter name as the leaf's column.
filterField_ParamAsColumn(field, phrase) ==
    IF ~Contains(field.filter, tagFilterable) THEN Nil
    ELSE LET filterSubPhraseMatch ==
                 FindStringSubmatch(paramNameOf(field) \o <<":">>, phrase)
         IN  IF Len(filterSubPhraseMatch) = 2
             THEN Eq(paramNameOf(field), filterSubPhraseMatch[2])
             ELSE Nil

\* filterField without its check of the filterable capability.
filterField_NoCapabilityCheck(field, phrase) ==
    LET filterSubPhraseMatch ==
            FindStringSubmatch(paramNameOf(field) \o <<":">>, phrase)
    IN  IF Len(filterSubPhraseMatch) = 2
        THEN Eq(getColumnNameForField(field), filterSubPhraseMatch[2])
        ELSE Nil

\* regexp.Compile cannot fail here: paramName is a run of \w characters or
\* a Go identifier, so the pattern is paramName followed by `:(\w{1,}).*`.
filterField(field, phrase) ==
    IF ~Contains(field.filter, tagFilterable) THEN Nil
    ELSE LET columnName == getColumnNameForField(field)
             filterSubPhraseMatch ==
                 FindStringSubmatch(paramNameOf(field) \o <<":">>, phrase)
         IN  IF Len(filterSubPhraseMatch) = 2
             THEN Eq(columnName, filterSubPhraseMatch[2])
             ELSE Nil

\* The call operator(field, phrase) of a function value, named by the
\* function it holds: searchField or filterField.
CallOperator(operator, field, phrase) ==
    IF operator = "searchField" THEN searchField(field, phrase)
    ELSE filterField(field, phrase)

\* The call predicate(expressions...): clause.Or or clause.And.
CallPredicate(predicate, expressions) ==
    IF predicate = "clause.Or" THEN Or(expressions) ELSE And(expressions)

expressionByField(d, phrase, fields, operator, predicate) ==
    LET all         == [i \in 1..Len(fields) |-> CallOperator(operator, fields[i], phrase)]
        expressions == SelectSeq(all, LAMBDA e : e # Nil)
    IN  IF Len(expressions) = 1 THEN Where(d, expressions[1])
        ELSE IF Len(expressions) > 1
             THEN Where(d, CallPredicate(predicate, expressions))
        ELSE d

----------------------------------------------------------------------------
(* reflect: the struct types bound as models.                              *)

Tag2(a, b) == a \o semi \o b
Tag3(a, b, c) == a \o semi \o b \o semi \o c

\* The User model of the test suite.
User ==
    << Field(sId, << >>, Tag2(tagParamPrefix \o sid, tagFilterable)),
       Field(sUsername, << >>,
             Tag3(tagParamPrefix \o slogin, tagSearchable, tagFilterable)),
       Field(sFullName, << >>, Tag2(tagParamPrefix \o sname, tagSearchable)),
       Field(sEmail, << >>, tagFilterable),
       Field(sPassword, << >>, << >>) >>

\* The UserModel of the package documentation; gorm.Model is embedded.
UserModel ==
    << Field(sModel, << >>, << >>),
       Field(sUsername, tagUniqueIndex,
             Tag3(tagParamPrefix \o slogin, tagSearchable, tagFilterable)),
       Field(sFullName, << >>, tagSearchable),
       Field(sRole, << >>, tagFilterable) >>

\* A model whose columns are named by gorm `column:` tags, with one
\* searchable field and an untagged field that has a column name.
Account ==
    << Field(sLogin, Tag2(tagColumnPrefix \o suser_login, tagUniqueIndex),
             Tag2(tagParamPrefix \o slogin, tagFilterable)),
       Field(sWord, tagColumnPrefix \o sword, Tag2(tagFilterable, tagSearchable)),
       Field(sPassword, tagColumnPrefix \o spassword, << >>) >>

\* A model with no searchable and no filterable field.
Plain == << Field(sId, << >>, << >>), Field(sPassword, << >>, << >>) >>

\* A model whose param names are the words `searchable` and `filterable`:
\* Note is declared filterable only, Token declares no capability.
Tagged ==
    << Field(sNote, << >>, Tag2(tagParamPrefix \o tagSearchable, tagFilterable)),
       Field(sToken, << >>, tagParamPrefix \o tagFilterable) >>

StructTypes == {"User", "UserModel", "Account", "Plain"}

\* The fields of the struct type named n: modelType.Field(0..NumField()-1).
StructFields(n) ==
    CASE n = "User"      -> User
      [] n = "UserModel" -> UserModel
      [] n = "Account"   -> Account
      [] n = "Plain"     -> Plain
      [] n = "Tagged"    -> Tagged
      [] OTHER           -> << >>

----------------------------------------------------------------------------
(* c.BindQuery(&params): gin's form binding of queryParams.                *)

\* The values of key in the query string, in order.
QueryValues(q, key) ==
    LET hits == SelectSeq(q, LAMBDA kv : kv.key = key)
    IN  [i \in 1..Len(hits) |-> hits[i].value]

\* A field of a non-slice type takes the first value of its key, and the
\* tag's default (or the zero value) when the key is absent.
FormValue(q, key, default) ==
    LET vs == QueryValues(q, key)
    IN  IF Len(vs) > 0 THEN vs[1] ELSE default

BindQuery(q) ==
    LET page     == ParseInt(FormValue(q, "page", <<"1">>))
        pageSize == ParseInt(FormValue(q, "page_size", <<"1","0">>))
        all      == ParseBool(FormValue(q, "all", sfalse))
    IN  [err    |-> page.err \/ pageSize.err \/ all.err,
         params |-> [Search         |-> FormValue(q, "search", << >>),
                     Filter         |-> FormValue(q, "filter", << >>),
                     Page           |-> page.n,
                     PageSize       |-> pageSize.n,
                     All            |-> all.b,
                     OrderBy        |-> FormValue(q, "order_by", sid),
                     OrderDirection |-> FormValue(q, "order_direction", sdesc)]]

\* The zero value of queryParams.
ZeroParams ==
    [Search |-> << >>, Filter |-> << >>, Page |-> 0, PageSize |-> 0,
     All |-> FALSE, OrderBy |-> << >>, OrderDirection |-> << >>]

----------------------------------------------------------------------------
(* FilterByQuery(c, config)(db)                                            *)

\* model != nil && modelType.Kind() == reflect.Ptr &&
\* modelType.Elem().Kind() == reflect.Struct
\* Any model that is not nil taken for a pointer to a struct.
IsStructPtr_AnyModel(m) == m.kind # "nil"

IsStructPtr(m) == m.kind = "ptr_struct"

SearchStage(d, cfg, p, m) ==
    IF IsStructPtr(m) /\ HasBit(cfg, SEARCH) /\ p.Search # << >>
    THEN expressionByField(d, p.Search, StructFields(m.elem), "searchField", "clause.Or")
    ELSE d

FilterStage(d, cfg, p, m) ==
    IF IsStructPtr(m) /\ HasBit(cfg, FILTER) /\ p.Filter # << >>
    THEN expressionByField(d, p.Filter, StructFields(m.elem), "filterField", "clause.And")
    ELSE d

\* The order stage run whatever the config says.
OrderStage_Ungated(d, cfg, p) == orderBy(d, p)

OrderStage(d, cfg, p) == IF HasBit(cfg, ORDER_BY) THEN orderBy(d, p) ELSE d

PaginateStage(d, cfg, p) == IF HasBit(cfg, PAGINATE) THEN paginate(d, p) ELSE d

\* Scope with the filter stage run before the search stage.
Scope_FilterBeforeSearch(d, cfg, q, m) ==
    LET bound == BindQuery(q)
        p     == bound.params
    IN  IF bound.err THEN d
        ELSE PaginateStage(
                 OrderStage(
                     SearchStage(FilterStage(d, cfg, p, m), cfg, p, m),
                     cfg, p),
                 cfg, p)

\* Scope that runs its stages whether or not the query could be bound.
Scope_IgnoresBindError(d, cfg, q, m) ==
    LET p == BindQuery(q).params
    IN  PaginateStage(
            OrderStage(
                FilterStage(SearchStage(d, cfg, p, m), cfg, p, m),
                cfg, p),
            cfg, p)

\* What the scope returns for statement d.
Scope(d, cfg, q, m) ==
    LET bound == BindQuery(q)
        p     == bound.params
    IN  IF bound.err THEN d
        ELSE PaginateStage(
                 OrderStage(
                     FilterStage(SearchStage(d, cfg, p, m), cfg, p, m),
                     cfg, p),
                 cfg, p)

FilterByQuery ==
    /\ pc = "call"
    /\ params' = BindQuery(query).params
    /\ err' = BindQuery(query).err
    /\ out' = Scope(db, config, query, model)
    /\ pc' = "done"
    /\ UNCHANGED <<model, config, query, db>>

----------------------------------------------------------------------------
(* Inputs: the models bound to the statement, and the requests.            *)

\* db.Model(&T{}) for the struct types; a statement with no model; a User
\* handed by value; a pointer to a slice of User.
Models ==
    {[kind |-> "ptr_struct", elem |-> n] : n \in StructTypes}
      \cup {[kind |-> k, elem |-> "User"] : k \in {"struct", "ptr_slice"}}
      \cup {[kind |-> "nil", elem |-> "none"]}

Phrase(key, operator, value) == key \o operator \o value

\* The filter operators of the documentation.
Operators ==
    {<<":">>, <<"!","=">>, <<">","=">>, <<"<","=">>, <<">">>, <<"<">>, <<"~">>}

\* The filter phrases of the requests.
FilterPhrases ==
    { Phrase(slogin, <<":">>, vSampleUser),
      Phrase(sEmail, <<":">>, vJohnMail),
      Phrase(spassword, <<":">>, vSamplePassword),
      Phrase(sword, <<":">>, vx),
      Phrase(sid, <<"!","=">>, v22),
      Phrase(sid, <<">","=">>, v99),
      Phrase(sid, <<"<","=">>, v99),
      Phrase(sid, <<">">>, v99),
      Phrase(sid, <<"<">>, v99),
      Phrase(slogin, <<"~">>, vSamp) }

KV(key, value) == [key |-> key, value |-> value]

\* The key=value pairs a request is made of.
QueryPairs ==
    {KV("filter", ph) : ph \in FilterPhrases}
      \cup {KV("search", vJohn),
            KV("page", v2), KV("page", vx),
            KV("order_by", sEmail)}

RECURSIVE SeqsUpTo(_, _)
\* The sequences over S of length at most n.
SeqsUpTo(S, n) ==
    IF n = 0 THEN {<< >>}
    ELSE LET shorter == SeqsUpTo(S, n - 1)
         IN  shorter \cup {Append(q, x) : q \in shorter, x \in S}

Queries == SeqsUpTo(QueryPairs, MaxParams)

\* The statements the scope is applied to: a fresh one, and one that already
\* carries a condition and an order.
Statements ==
    {NewDB, Order(Where(NewDB, Eq(sRole, vx)), sname, FALSE)}

----------------------------------------------------------------------------
(* The specification.                                                      *)

Init ==
    /\ model \in Models
    /\ config \in 0..ALL
    /\ query \in Queries
    /\ db \in Statements
    /\ params = ZeroParams
    /\ err = FALSE
    /\ out = db
    /\ pc = "call"

Next == FilterByQuery

Spec == Init /\ [][Next]_vars

----------------------------------------------------------------------------
(* The specification of the paging and ordering requests.                  *)

\* The models of the paging requests: the User model, no model, a User
\* handed by value, a pointer to a slice of User.
PageModels ==
    {[kind |-> k, elem |-> "User"] : k \in {"ptr_struct", "struct", "ptr_slice"}}
      \cup {[kind |-> "nil", elem |-> "none"]}

\* The key=value pairs of a paging request.
PageQueryPairs ==
    {KV("page", v) : v \in {vMinus1, v0, v2, vx}}
      \cup {KV("page_size", v) : v \in {vMinus1, v0, v1, v100, v101}}
      \cup {KV("all", strue),
            KV("order_by", sEmail),
            KV("order_direction", sasc), KV("order_direction", sdesc),
            KV("filter", Phrase(slogin, <<":">>, vSampleUser)),
            KV("search", vJohn)}

PageQueries == SeqsUpTo(PageQueryPairs, MaxParams)

InitPage ==
    /\ model \in PageModels
    /\ config \in 0..ALL
    /\ query \in PageQueries
    /\ db \in Statements
    /\ params = ZeroParams
    /\ err = FALSE
    /\ out = db
    /\ pc = "call"

SpecPage == InitPage /\ [][Next]_vars

----------------------------------------------------------------------------
(* The specification of the requests against the Tagged model.             *)

\* The key=value pairs of a request against the Tagged model.
TagQueryPairs ==
    {KV("search", vJohn),
     KV("filter", Phrase(tagSearchable, <<":">>, vx)),
     KV("filter", Phrase(tagFilterable, <<":">>, vx)),
     KV("page", v2)}

TagQueries == SeqsUpTo(TagQueryPairs, MaxParams)

InitTags ==
    /\ model \in {[kind |-> "ptr_struct", elem |-> n] : n \in {"Tagged", "User"}}
    /\ config \in 0..ALL
    /\ query \in TagQueries
    /\ db \in Statements
    /\ params = ZeroParams
    /\ err = FALSE
    /\ out = db
    /\ pc = "call"

SpecTags == InitTags /\ [][Next]_vars

----------------------------------------------------------------------------
(* What a model declares, read from its tags entry by entry, and what the  *)
(* scope added to the statement.  The claims below are stated with these.  *)

RECURSIVE SplitOn(_, _)
\* The entries of s between the occurrences of the character c.
SplitOn(s, c) ==
    LET at == {i \in 1..Len(s) : s[i] = c}
    IN  IF at = {} THEN << s >>
        ELSE LET i == CHOOSE j \in at : \A k \in at : j <= k
             IN  << SubSeq(s, 1, i - 1) >> \o SplitOn(SubSeq(s, i + 1, Len(s)), c)

\* The entries of tag that start with prefix, without the prefix.
EntriesAfter(tag, prefix) ==
    LET entries == SelectSeq(SplitOn(tag, ";"), LAMBDA e : HasPrefixAt(e, 1, prefix))
    IN  [i \in 1..Len(entries) |-> SubSeq(entries[i], Len(prefix) + 1, Len(entries[i]))]

\* field's filter tag has capability as one of its entries
Declares(field, capability) ==
    \E i \in 1..Len(SplitOn(field.filter, ";")) :
        SplitOn(field.filter, ";")[i] = capability

\* field's filter tag has a param:<name> entry
HasParam(field) == Len(EntriesAfter(field.filter, tagParamPrefix)) > 0

DeclaredParam(field) == EntriesAfter(field.filter, tagParamPrefix)[1]

\* The column of field: its gorm column:<name> entry, else its declared name.
DeclaredColumn(field) ==
    LET cols == EntriesAfter(field.gorm, tagColumnPrefix)
    IN  IF Len(cols) > 0 THEN cols[1] ELSE field.Name

\* The parameter name under which field is exposed.
ExposedName(field) ==
    IF HasParam(field) THEN DeclaredParam(field) ELSE DeclaredColumn(field)

FieldsOf(m) == {StructFields(m.elem)[i] : i \in 1..Len(StructFields(m.elem))}

FilterableFields(m) == {f \in FieldsOf(m) : Declares(f, tagFilterable)}

\* The columns of the searchable fields of m, in declaration order.
SearchableColumns(m) ==
    LET fs == SelectSeq(StructFields(m.elem), LAMBDA f : Declares(f, tagSearchable))
    IN  [i \in 1..Len(fs) |-> DeclaredColumn(fs[i])]

\* The values of the filter phrases: runs of \w characters, and all of them.
WordValues == {vSampleUser, vSamplePassword, v22, v99, vSamp, vx}

PhraseValues == WordValues \cup {vJohnMail}

\* The conditions the scope added to the statement's WHERE.
AddedWhere == SubSeq(out.where, Len(db.where) + 1, Len(out.where))

LeavesOf(e) ==
    IF e.op \in {"And", "Or"} THEN {e.exprs[i] : i \in 1..Len(e.exprs)} ELSE {e}

\* The comparison leaves the scope added, at the top level or in a group.
AddedLeaves == UNION {LeavesOf(AddedWhere[i]) : i \in 1..Len(AddedWhere)}

\* The scope has returned, having bound the query and resolved the model.
Resolved == pc = "done" /\ ~err /\ IsStructPtr(model)

\* The filter stage ran on the phrase params.Filter.
Filtered == Resolved /\ HasBit(config, FILTER) /\ params.Filter # << >>

\* The search stage ran on the phrase params.Search.
Searched == Resolved /\ HasBit(config, SEARCH) /\ params.Search # << >>

----------------------------------------------------------------------------
(* Claims.                                                                 *)

Comparison(operator) ==
    CASE operator = <<":">>     -> "Eq"
      [] operator = <<"!","=">> -> "Neq"
      [] operator = <<">","=">> -> "Gte"
      [] operator = <<"<","=">> -> "Lte"
      [] operator = <<">">>     -> "Gt"
      [] operator = <<"<">>     -> "Lt"
      [] operator = <<"~">>     -> "Like"

\* The leaf  column <kind> value.
Leaf(kind, column, value) ==
    [op |-> kind, column |-> column, value |-> value, exprs |-> << >>]

\* C2: a phrase <param><op><value> addressed to a filterable field adds the
\* leaf of the comparison that op denotes (: = , != <>, >= , <= , > , < ,
\* ~ LIKE) on the field's column with the value.
C2_OperatorDenotesComparison ==
    Filtered =>
        \A f \in FilterableFields(model), o \in Operators, v \in WordValues :
            params.Filter = Phrase(ExposedName(f), o, v) =>
                Leaf(Comparison(o), DeclaredColumn(f), v) \in AddedLeaves

CompoundOperators == {<<"!","=">>, <<">","=">>, <<"<","=">>}

\* C3: p>=v resolves to operator >= with value v, p<=v to <= and p!=v to
\* inequality, and none of them to the one-character prefix of the operator
\* with a value that starts with "=".
C3_CompoundOperatorNotSplit ==
    Filtered =>
        \A f \in FilterableFields(model), o \in CompoundOperators, v \in WordValues :
            params.Filter = Phrase(ExposedName(f), o, v) =>
                /\ \E e \in AddedLeaves :
                       /\ e.op = Comparison(o)
                       /\ e.column = DeclaredColumn(f)
                       /\ e.value = v
                /\ \A e \in AddedLeaves :
                       e.column = DeclaredColumn(f) => e.value # <<"=">> \o v

\* The filter entries of the query string, in order.
FilterEntries == QueryValues(query, "filter")

\* C4: with several filter entries in the query string, each addressing a
\* filterable field, every entry has its comparison leaf in the WHERE, as
\* many leaves as entries, all joined by AND.
C4_EveryFilterEntryApplied ==
    ( /\ Resolved
      /\ HasBit(config, FILTER)
      /\ Len(FilterEntries) > 1
      /\ \A j \in 1..Len(FilterEntries) :
             \E f \in FilterableFields(model), v \in PhraseValues :
                 FilterEntries[j] = Phrase(ExposedName(f), <<":">>, v) )
    =>
        /\ Cardinality({e \in AddedLeaves : e.op = "Eq"}) >= Cardinality(
               {FilterEntries[j] : j \in 1..Len(FilterEntries)})
        /\ \A j \in 1..Len(FilterEntries), f \in FilterableFields(model) :
               HasPrefixAt(FilterEntries[j], 1, ExposedName(f) \o <<":">>) =>
                   \E i \in 1..Len(AddedWhere) :
                       /\ AddedWhere[i].op \in {"Eq", "And"}
                       /\ \E e \in LeavesOf(AddedWhere[i]) :
                              e.op = "Eq" /\ e.column = DeclaredColumn(f)

\* C5: the value of the leaf a phrase adds is all of the phrase after the
\* operator, whatever its characters: Email:john@example.com gives the value
\* john@example.com.
C5_ValueIsRestOfPhrase ==
    Filtered =>
        \A f \in FilterableFields(model), v \in PhraseValues :
            params.Filter = Phrase(ExposedName(f), <<":">>, v) =>
                /\ \E e \in AddedLeaves : e.op = "Eq" /\ e.column = DeclaredColumn(f)
                /\ \A e \in AddedLeaves :
                       (e.op = "Eq" /\ e.column = DeclaredColumn(f)) => e.value = v

\* The leaves the search stage is to add for phrase: one LIKE %phrase% per
\* searchable column, in declaration order.
SearchLeaves(m, phrase) ==
    LET cols == SearchableColumns(m)
    IN  [i \in 1..Len(cols) |-> Leaf("Like", cols[i], <<"%">> \o phrase \o <<"%">>)]

\* The condition that holds them: none, the one leaf, or their OR group.
SearchGroup(m, phrase) ==
    LET leaves == SearchLeaves(m, phrase)
    IN  IF Len(leaves) = 0 THEN << >>
        ELSE IF Len(leaves) = 1 THEN << leaves[1] >>
        ELSE << [op |-> "Or", column |-> << >>, value |-> << >>, exprs |-> leaves] >>

\* e is a condition of the search stage: a LIKE leaf or an OR group.
IsSearchCondition(e) == e.op \in {"Like", "Or"}

LowerChar(c) ==
    IF c \in UpperLetters
    THEN LowerAlphabet[CHOOSE i \in 1..Len(UpperAlphabet) : UpperAlphabet[i] = c]
    ELSE c

ToLower(s) == [i \in 1..Len(s) |-> LowerChar(s[i])]

\* C7: search is case-insensitive: every searchable field has a search leaf
\* that compares its lower-cased column with the lower-cased phrase,
\* search=John giving the pattern %john%.  (clause.Like, the only LIKE leaf
\* of the scope, compares the column as it is; the pattern decides here.)
C7_SearchIsCaseInsensitive ==
    Searched =>
        LET cols == SearchableColumns(model)
        IN  \A i \in 1..Len(cols) :
                \E e \in AddedLeaves :
                    /\ e.op = "Like"
                    /\ e.column = cols[i]
                    /\ e.value = <<"%">> \o ToLower(params.Search) \o <<"%">>

\* e is a condition of the filter stage: a comparison leaf or an AND group.
IsFilterCondition(e) == e.op \in {"Eq", "And"}

\* C8: with SEARCH and FILTER both enabled and both producing a predicate,
\* the WHERE gains the search group and then the filter group, two
\* conditions joined by AND; in no case is a filter condition put before a
\* search condition or a condition of another kind added.
C8_SearchAndFilterJoinedByAnd ==
    Resolved =>
        /\ Len(AddedWhere) <= 2
        /\ \A i \in 1..Len(AddedWhere) :
               IsSearchCondition(AddedWhere[i]) \/ IsFilterCondition(AddedWhere[i])
        /\ Len(AddedWhere) = 2 =>
               IsSearchCondition(AddedWhere[1]) /\ IsFilterCondition(AddedWhere[2])
        /\ (Searched /\ Filtered /\ Len(SearchableColumns(model)) > 0) =>
               \A f \in FilterableFields(model), v \in WordValues :
                   params.Filter = Phrase(ExposedName(f), <<":">>, v) =>
                       /\ Len(AddedWhere) = 2
                       /\ << AddedWhere[1] >> = SearchGroup(model, params.Search)
                       /\ Leaf("Eq", DeclaredColumn(f), v) \in LeavesOf(AddedWhere[2])

\* C8 witness: filter=login:sampleUser&search=John against User under
\* SEARCH|FILTER added the OR group and then Username = sampleUser.
C8_Witness ==
    /\ Searched
    /\ Filtered
    /\ model.elem = "User"
    /\ Len(AddedWhere) = 2
    /\ AddedWhere[1].op = "Or"
    /\ AddedWhere[2] = Leaf("Eq", sUsername, vSampleUser)

Columns(m) == {DeclaredColumn(f) : f \in FieldsOf(m)}

----------------------------------------------------------------------------
(* Paging.                                                                 *)

\* The scope has returned, having bound the query, with paging enabled and
\* not switched off by all=true.
Paged == pc = "done" /\ ~err /\ HasBit(config, PAGINATE) /\ ~params.All

\* C11: with PAGINATE enabled and all=false the applied limit lies in
\* 1..100 for every requested page size: a page size above 100 gives the
\* limit 100, a page size of zero or less gives the limit 10, and a page
\* size in 1..100 is applied as it is.
C11_LimitClamped ==
    Paged =>
        /\ out.limit.set
        /\ out.limit.n \in 1..100
        /\ params.PageSize > 100 => out.limit.n = 100
        /\ params.PageSize <= 0 => out.limit.n = 10
        /\ params.PageSize \in 1..100 => out.limit.n = params.PageSize

\* A request with page_size=101 was paged with the limit 100.
C11_Witness ==
    /\ Paged
    /\ QueryValues(query, "page_size") # << >>
    /\ QueryValues(query, "page_size")[1] = v101
    /\ params.PageSize = 101
    /\ out.limit = [set |-> TRUE, n |-> 100]

\* The larger of two integers.
Max(a, b) == IF a >= b THEN a ELSE b

\* C12: with PAGINATE enabled and all=false, for every requested page, zero
\* and negative pages included, the page in effect is max(page, 1) and the
\* applied offset is (max(page, 1) - 1) * limit, so that the offset is
\* never negative; page=2 with the default size gives offset 10, limit 10.
C12_OffsetFromEffectivePage ==
    Paged =>
        /\ out.offset.set
        /\ out.offset.n = (Max(params.Page, 1) - 1) * out.limit.n
        /\ out.offset.n >= 0
        /\ (params.Page = 2 /\ params.PageSize = 10) =>
               (out.offset.n = 10 /\ out.limit.n = 10)

\* The request asks for all=true: the first value of the key `all`.
AllRequested ==
    QueryValues(query, "all") # << >> /\ QueryValues(query, "all")[1] = strue

\* C13: when all=true the scope applies neither a limit nor an offset, for
\* every page and page size of the request, and paginate leaves the where
\* and order parts already on the statement as they were.
C13_AllSuppressesPaging ==
    (pc = "done" /\ ~err /\ AllRequested) =>
        /\ out.limit = db.limit
        /\ out.offset = db.offset
        /\ ~out.limit.set /\ ~out.offset.set
        /\ config = PAGINATE => out = db

\* An all=true request with page_size=101 went through the paginate stage
\* on a statement that already carried a condition and an order.
C13_Witness ==
    /\ pc = "done" /\ ~err /\ AllRequested
    /\ config = PAGINATE
    /\ params.All /\ params.PageSize = 101
    /\ db.where # << >> /\ db.order # << >>
    /\ out = db

----------------------------------------------------------------------------
(* Config bits.                                                            *)

RECURSIVE SumOf(_)
\* The sum of a finite set of integers.
SumOf(S) ==
    IF S = {} THEN 0
    ELSE LET x == CHOOSE y \in S : TRUE IN x + SumOf(S \ {x})

\* The features a config value switches on: the flags it is the sum of.
Features(cfg) ==
    CHOOSE S \in SUBSET {SEARCH, FILTER, PAGINATE, ORDER_BY} : SumOf(S) = cfg

\* The request carries a value for key.
Has(key) == QueryValues(query, key) # << >>

\* C14: each config bit gates its own feature and no other: a LIKE
\* predicate is added only with SEARCH set, an equality predicate only with
\* FILTER set, an order clause only with ORDER_BY set, limit and offset only
\* with PAGINATE set, whatever parameters the request carries and whatever
\* the other bits are; with its bit set (and request and model fit for it)
\* the part is added.  filter=login:sampleUser under config SEARCH changes
\* nothing.
C14_BitsGateIndependently ==
    pc = "done" =>
        /\ SEARCH \notin Features(config) =>
               ~ \E e \in AddedLeaves : e.op = "Like"
        /\ FILTER \notin Features(config) =>
               ~ \E e \in AddedLeaves : e.op = "Eq"
        /\ ORDER_BY \notin Features(config) => out.order = db.order
        /\ PAGINATE \notin Features(config) =>
               (out.limit = db.limit /\ out.offset = db.offset)
        /\ (config = SEARCH /\ ~Has("search")) => out = db
        /\ (~err /\ model = [kind |-> "ptr_struct", elem |-> "User"]) =>
               /\ (SEARCH \in Features(config) /\ Has("search")) =>
                      \E e \in AddedLeaves : e.op = "Like"
               /\ (FILTER \in Features(config)
                     /\ Has("filter")
                     /\ QueryValues(query, "filter")[1]
                          = Phrase(slogin, <<":">>, vSampleUser)) =>
                      \E e \in AddedLeaves : e.op = "Eq"
        /\ (~err /\ ORDER_BY \in Features(config)) =>
               Len(out.order) = Len(db.order) + 1
        /\ (~err /\ PAGINATE \in Features(config) /\ ~AllRequested) =>
               (out.limit.set /\ out.offset.set)

\* filter=login:sampleUser with order and page parameters reached the scope
\* of the User model under config SEARCH and left the statement alone.
C14_Witness ==
    /\ pc = "done" /\ ~err
    /\ config = SEARCH
    /\ model = [kind |-> "ptr_struct", elem |-> "User"]
    /\ query = << KV("filter", Phrase(slogin, <<":">>, vSampleUser)),
                  KV("order_by", sEmail) >>
    /\ out = db

----------------------------------------------------------------------------
(* Models that cannot be resolved, and requests that cannot be bound.      *)

\* C15: when the statement has no model, or its model is not a pointer to a
\* struct (a struct value, a pointer to a slice), the scope adds no search
\* and no filter predicate and still returns; the order clause is added
\* whenever ORDER_BY is set and limit and offset whenever PAGINATE is set.
C15_UnresolvedModelSkipsPredicates ==
    (pc = "done" /\ ~err /\ model.kind \in {"nil", "struct", "ptr_slice"}) =>
        /\ out.where = db.where
        /\ ORDER_BY \in Features(config) =>
               /\ Len(out.order) = Len(db.order) + 1
               /\ out.order[Len(out.order)].column = params.OrderBy
        /\ (PAGINATE \in Features(config) /\ ~AllRequested) =>
               (out.limit.set /\ out.offset.set)

\* A request with a search and a filter phrase reached the scope of a
\* pointer to a slice under config ALL: ordered and paged, no predicate.
C15_Witness ==
    /\ pc = "done" /\ ~err
    /\ model.kind = "ptr_slice"
    /\ config = ALL
    /\ Has("search") /\ Has("filter")
    /\ out.where = db.where
    /\ Len(out.order) = Len(db.order) + 1
    /\ out.limit.set

\* The request's page is not an integer.
PageNotInteger ==
    /\ Has("page")
    /\ \E i \in 1..Len(QueryValues(query, "page")[1]) :
           QueryValues(query, "page")[1][i] \notin {"-"} \cup {Digits[k] : k \in 1..Len(Digits)}

\* C16: when the query string cannot be bound to the parameters (page is
\* not an integer), the scope returns the statement it was given: no where,
\* order, limit or offset is added, whatever the config.
C16_BindFailureReturnsStatement ==
    pc = "done" =>
        /\ PageNotInteger => err
        /\ err => out = db

\* page=x next to a search phrase reached the scope of the User model
\* under config ALL, and the statement came back as it was.
C16_Witness ==
    /\ pc = "done" /\ err
    /\ PageNotInteger
    /\ config = ALL
    /\ model = [kind |-> "ptr_struct", elem |-> "User"]
    /\ Has("search")
    /\ out = db

----------------------------------------------------------------------------
(* Ordering.                                                               *)

\* The first value of key in the request.
First(key) == QueryValues(query, key)[1]

----------------------------------------------------------------------------
(* Phrase keys and tag entries.                                            *)

\* C18: a filterable field yields a leaf only when the filter phrase begins
\* with the field's exposed parameter name immediately followed by an
\* operator; a phrase whose key is another name, one that only contains or
\* ends with the parameter name, yields no leaf for that field.
C18_KeyIsWholeParameterName ==
    Filtered =>
        \A f \in FilterableFields(model) :
            (\E e \in AddedLeaves : e.op = "Eq" /\ e.column = DeclaredColumn(f)) =>
                \E op \in Operators :
                    HasPrefixAt(params.Filter, 1, ExposedName(f) \o op)

\* C19: a field yields a search leaf only if its filter tag has `searchable`
\* as one of its semicolon-separated entries, and a filter leaf only if it
\* has `filterable` as one of them; nothing else in the tag, such as the
\* name of a param:<name> entry, grants a capability.
C19_CapabilityIsTagEntry ==
    Resolved =>
        \A e \in AddedLeaves :
            /\ e.op = "Like" =>
                   \E f \in FieldsOf(model) :
                       Declares(f, tagSearchable) /\ DeclaredColumn(f) = e.column
            /\ e.op = "Eq" =>
                   \E f \in FieldsOf(model) :
                       Declares(f, tagFilterable) /\ DeclaredColumn(f) = e.column

====
